---- MODULE Spec2Model ----
(***************************************************************************)
(* PaperBox (boxes/generators/paperbox.py): the object's fields, render(), *)
(* the two layout assemblers and the sub-generators they call.             *)
(*                                                                         *)
(* Lengths are whole millimetres.  The input sets below only hold values   *)
(* on which every division of the code (length / 2, width / 5,             *)
(* (width - diameter) / 2, height / cos, height * tan) is exact, so the    *)
(* integer arithmetic here equals the code's arithmetic on them; float     *)
(* rounding is not modelled.  tab_angle_rad is an angle whose cosine and   *)
(* sine are the rationals A/C and B/C.                                     *)
(***************************************************************************)
EXTENDS Integers, Sequences, FiniteSets

VARIABLES
    x, y, h,                \* self.x, self.y, self.h
    design,                 \* self.design
    thickness, burn,        \* self.thickness, self.burn (owned by Boxes)
    lid_heigth, lid_radius, lid_sides, margin, mark_length,
    tab_angle_rad,          \* [A, B, C]: cos = A/C, sin = B/C
    finger_hole_diameter,
    argDesign,              \* the --design value the object was configured with
    phase,                  \* "configured" | "rendered"
    entry,                  \* the fields render() read when it was last entered
    calls,                  \* assemblers invoked by the last render, in order
    stroked,                \* primitives the last render handed to the backend
    raised,                 \* "none" | "TypeError": how the last render ended
    returned,               \* value the invoked assembler returned
    renders                 \* number of render() calls so far

vars == <<x, y, h, design, thickness, burn, lid_heigth, lid_radius, lid_sides,
          margin, mark_length, tab_angle_rad, finger_hole_diameter, argDesign,
          phase, entry, calls, stroked, raised, returned, renders>>

\* ---------------------------------------------------------------- bounds

MaxRenders == 2

Widths == {0, 20, 40, 100}
Lengths == {8, 40}
Heights == {8, 40}
Thicknesses == {0, 4}
Burns == {0, 1}
LidHeigths == {15}
LidRadii == {7, 20}
LidSides == {20}
Margins == {0}
MarkLengths == {0, 2}
TabAngles == {[A |-> 1, B |-> 0, C |-> 1], [A |-> 4, B |-> 3, C |-> 5]}
FingerHoleDiameters == {10, 60}
Designs == {"automatic", "widebox", "tuckbox"}

\* ------------------------------------------------------- python values

Num(n) == [tup |-> FALSE, v |-> n, d |-> 0, r |-> 0]
\* n + k * math.degrees(self.tab_angle_rad)
DegPlus(n, k) == [tup |-> FALSE, v |-> n, d |-> k, r |-> 0]
\* the tuple (a, rad)
Tup(a, rad) == [tup |-> TRUE, v |-> a, d |-> 0, r |-> rad]

None == [kind |-> "None", items |-> <<>>]
List(s) == [kind |-> "list", items |-> s]
TypeError == [kind |-> "TypeError", items |-> <<>>]

\* the result of a call: the value returned, the primitives stroked meanwhile
Call(val, out) == [val |-> val, out |-> out]

Reverse(s) == [i \in 1..Len(s) |-> s[Len(s) + 1 - i]]

Min2(a, b) == IF a <= b THEN a ELSE b
Max2(a, b) == IF a >= b THEN a ELSE b

\* a + b on lists; None + list raises TypeError
PyAdd(a, b) ==
    IF a.kind = "list" /\ b.kind = "list" THEN List(a.items \o b.items)
    ELSE TypeError

\* operand_1 + operand_2 + ... evaluated left to right: each operand is
\* evaluated (its strokes happen), then added; the first failing + raises and
\* the operands after it are never evaluated.
RECURSIVE PySum(_, _, _, _)
PySum(operands, i, acc, out) ==
    IF i > Len(operands) THEN Call(acc, out)
    ELSE LET o == operands[i]
             sum == PyAdd(acc, o.val)
         IN IF sum.kind = "TypeError" THEN Call(TypeError, out \o o.out)
            ELSE PySum(operands, i + 1, sum, out \o o.out)

PyExpr(operands) ==
    PySum(operands, 2, operands[1].val, operands[1].out)

\* ---------------------------------------------------- backend interface

\* Boxes.polyline(*args): args alternate edge length / corner
polyline(args, who) ==
    [i \in 1..Len(args) |->
        [op |-> IF i % 2 = 1 THEN "edge" ELSE "corner", arg |-> args[i], by |-> who]]

\* --------------------------------------------------------------- turtle

\* position in units of 1/C mm, heading = hq quarter turns + hd tab angles
Start == [px |-> 0, py |-> 0, hq |-> 0, hd |-> 0, ok |-> TRUE]

\* C times the unit vector of heading (hq, hd)
Heading(hq, hd) ==
    LET a == IF hd = 0 THEN tab_angle_rad.C ELSE tab_angle_rad.A
        b == hd * tab_angle_rad.B
    IN CASE hq = 0 -> <<a, b>>
         [] hq = 1 -> <<-b, a>>
         [] hq = 2 -> <<-a, -b>>
         [] OTHER -> <<b, -a>>

\* Line(length): move forward
Forward(t, length) ==
    LET u == Heading(t.hq, t.hd)
    IN [t EXCEPT !.px = @ + length * u[1], !.py = @ + length * u[2]]

\* Turn(v + d * deg): positive is counter-clockwise
Turn(t, v, d) ==
    IF v % 90 # 0 \/ t.hd + d < -1 \/ t.hd + d > 1
    THEN [t EXCEPT !.ok = FALSE]
    ELSE [t EXCEPT !.hq = (@ + v \div 90) % 4, !.hd = @ + d]

\* Arc(angle, radius), a quarter circle at a time
RECURSIVE ArcBy(_, _, _, _)
ArcBy(t, quarters, sense, radius) ==
    IF quarters = 0 THEN t
    ELSE ArcBy(Forward(Turn(Forward(t, radius), sense * 90, 0), radius),
               quarters - 1, sense, radius)

Arc(t, v, radius) ==
    IF v % 90 # 0 THEN [t EXCEPT !.ok = FALSE]
    ELSE IF v >= 0 THEN ArcBy(t, v \div 90, 1, radius)
    ELSE ArcBy(t, (-v) \div 90, -1, radius)

\* one stroked primitive; a crease is drawn inside saved_context
Step(t, p) ==
    CASE p.op = "edge" ->
            IF p.arg.tup \/ p.arg.d # 0 THEN [t EXCEPT !.ok = FALSE]
            ELSE Forward(t, p.arg.v)
      [] p.op = "corner" ->
            IF p.arg.tup THEN Arc(t, p.arg.v, p.arg.r)
            ELSE Turn(t, p.arg.v, p.arg.d)
      [] OTHER -> t

\* the primitives prims[lo .. hi] in order, by halves (a fold of Step); the
\* walk stops at the first primitive the turtle cannot interpret
RECURSIVE WalkRange(_, _, _, _)
WalkRange(t, prims, lo, hi) ==
    IF lo > hi THEN t
    ELSE IF lo = hi THEN Step(t, prims[lo])
    ELSE LET mid == (lo + hi) \div 2
             s == WalkRange(t, prims, lo, mid)
         IN IF ~s.ok THEN s ELSE WalkRange(s, prims, mid + 1, hi)

Walk(prims) == WalkRange(Start, prims, 1, Len(prims))

\* ------------------------------------------------------- sub-generators

lid(width) ==
    Call(None,
         polyline(<<Num(lid_heigth - lid_radius),
                    Tup(90, lid_radius),
                    Num(width - 2 * lid_radius),
                    Tup(90, lid_radius),
                    Num(lid_heigth - lid_radius)>>, "lid"))

\* saved_context; moveTo(0, length-1, -90); edge(length-2); stroke
crease(length) ==
    Call(None, <<[op |-> "crease", arg |-> Num(length - 2), by |-> "crease"]>>)

mark ==
    Call(None,
         polyline(<<Num(0), Num(-90), Num(mark_length), Num(180),
                    Num(mark_length), Num(-90)>>, "mark"))

lid_cut(length, reverse) ==
    Call(None,
         polyline(<<Num(0), Num(90),
                    Num(length + (IF reverse THEN 0 ELSE thickness))>>, "lid_cut")
         \o (IF ~reverse THEN crease(thickness - (length * 2)).out ELSE <<>>)
         \o polyline(<<Num(0), Num(-180),
                       Num(length + (IF reverse THEN thickness ELSE 0)),
                       Num(90)>>, "lid_cut"))

side_with_finger_hole(width, diameter) ==
    LET half_width == (width - diameter) \div 2
    IN <<Num(half_width), Num(90), Num(0), Tup(-180, diameter \div 2),
         Num(0), Num(90), Num(half_width), Num(0)>>

tab_description(height, width) ==
    LET side == (height * tab_angle_rad.C) \div tab_angle_rad.A
        end_width == width - (2 * height * tab_angle_rad.B) \div tab_angle_rad.A
    IN <<Num(0), DegPlus(-90, 1), Num(side), DegPlus(90, -1), Num(end_width),
         DegPlus(90, -1), Num(side), DegPlus(-90, 1)>>

ear_path(length, lid_cut_length) ==
    LET ear_depth == Max2(lid_cut_length, lid_heigth)
        radius == Min2(lid_radius, ear_depth - lid_cut_length)
        start_margin == thickness
        end_margin == 2 * burn
    IN <<Num(start_margin), Num(-90), Num(lid_cut_length), Num(90), Num(0),
         Tup(-90, radius), Num(0), Num(90),
         Num(length - radius - start_margin - end_margin), Num(90),
         Num(ear_depth), Num(-90), Num(end_margin)>>

\* ear_description with the terminating 0 reversed together with the path
ear_description_ReversedWhole(length, lid_cut_length, reverse) ==
    IF reverse THEN Reverse(ear_path(length, lid_cut_length) \o <<Num(0)>>)
    ELSE ear_path(length, lid_cut_length) \o <<Num(0)>>

ear_description(length, lid_cut_length, reverse) ==
    (IF reverse THEN Reverse(ear_path(length, lid_cut_length))
     ELSE ear_path(length, lid_cut_length)) \o <<Num(0)>>

\* ----------------------------------------------------------- assemblers

tuckbox_lid_cut_length(width, length) ==
    Min2(10, Min2(length \div 2, width \div 5))

tuckbox(width, length, height) ==
    LET lid_cut_length == tuckbox_lid_cut_length(width, length)
    IN Call(None,
        polyline(<<Num(height), Num(0)>>, "tuckbox")
        \o mark.out
        \o crease(length).out
        \o polyline(<<Num(0), Num(90)>>
                    \o ear_description(length, lid_cut_length, FALSE)
                    \o <<Num(0), Num(-90), Num(length), Num(0)>>, "tuckbox")
        \o lid_cut(lid_cut_length, FALSE).out
        \o lid(width - 2 * thickness).out
        \o polyline(<<Num(0), Num(0)>>, "tuckbox")
        \o lid_cut(lid_cut_length, TRUE).out
        \o polyline(<<Num(length), Num(-90)>>
                    \o ear_description(length, lid_cut_length, TRUE), "tuckbox")
        \o polyline(<<Num(0), Num(90)>>, "tuckbox")
        \o crease(length).out
        \o polyline(<<Num(0), Num(-90)>>, "tuckbox")
        \o crease(height).out
        \o mark.out
        \o polyline(side_with_finger_hole(width, finger_hole_diameter), "tuckbox")
        \o crease(width).out
        \o mark.out
        \o polyline(<<Num(0), Num(90)>>
                    \o tab_description(length - margin - thickness, height), "tuckbox")
        \o polyline(<<Num(0), Num(90)>>, "tuckbox")
        \o crease(width).out
        \o mark.out
        \o polyline(<<Num(width)>>, "tuckbox"))

Pure(s) == Call(List(s), <<>>)

widebox(width, length, height) ==
    LET half_side ==
            PyExpr(<<mark,
                     Pure(<<Num(0), Num(90)>>),
                     Pure(tab_description(length \div 2 - margin, height)),
                     Pure(<<Num(0), Num(-90), Num(height), Num(0)>>),
                     mark,
                     Pure(<<Num(0), Num(90)>>),
                     Pure(tab_description(lid_sides, length)),
                     Pure(<<Num(0), Num(90)>>),
                     mark,
                     Pure(<<Num(height), Num(-90)>>),
                     Pure(tab_description(length \div 2 - margin, height)),
                     Pure(<<Num(length), Num(0)>>),
                     mark>>)
    IN IF half_side.val.kind = "TypeError" THEN half_side
       ELSE LET result ==
                    PyExpr(<<Pure(side_with_finger_hole(width, finger_hole_diameter)),
                             Call(half_side.val, <<>>),
                             lid(width),
                             Pure(Reverse(half_side.val.items))>>)
            IN Call(result.val, half_side.out \o result.out)

\* --------------------------------------------------------------- render

\* ResolveDesign with >= in place of the strict comparison
ResolveDesign_AtLeast(d, height, length) ==
    IF d = "automatic"
    THEN (IF height >= length THEN "tuckbox" ELSE "widebox")
    ELSE d

ResolveDesign(d, height, length) ==
    IF d = "automatic"
    THEN (IF height > length THEN "tuckbox" ELSE "widebox")
    ELSE d

\* every division the code performs on these fields is exact
ExactInputs(w, l, t, m, ls, fhd, ang) ==
    /\ l % 2 = 0
    /\ w % 5 = 0
    /\ (w - fhd) % 2 = 0
    /\ fhd % 2 = 0
    /\ \A H \in {l - m - t, l \div 2 - m, ls} :
          /\ (H * ang.C) % ang.A = 0
          /\ (2 * H * ang.B) % ang.A = 0

Init ==
    /\ x \in Widths
    /\ y \in Lengths
    /\ h \in Heights
    /\ design \in Designs
    /\ thickness \in Thicknesses
    /\ burn \in Burns
    /\ lid_heigth \in LidHeigths
    /\ lid_radius \in LidRadii
    /\ lid_sides \in LidSides
    /\ margin \in Margins
    /\ mark_length \in MarkLengths
    /\ tab_angle_rad \in TabAngles
    /\ finger_hole_diameter \in FingerHoleDiameters
    /\ ExactInputs(x, y, thickness, margin, lid_sides, finger_hole_diameter,
                   tab_angle_rad)
    /\ argDesign = design
    /\ phase = "configured"
    /\ entry = [design |-> design, x |-> x, y |-> y, h |-> h]
    /\ calls = <<>>
    /\ stroked = <<>>
    /\ raised = "none"
    /\ returned = None
    /\ renders = 0

Render ==
    /\ renders < MaxRenders
    /\ LET resolved == ResolveDesign(design, h, y)
           run == IF resolved = "tuckbox" THEN tuckbox(x, y, h)
                  ELSE widebox(x, y, h)
       IN /\ design' = resolved
          /\ calls' = <<[fn |-> IF resolved = "tuckbox" THEN "tuckbox" ELSE "widebox",
                         args |-> <<x, y, h>>]>>
          /\ stroked' = run.out
          /\ raised' = IF run.val.kind = "TypeError" THEN "TypeError" ELSE "none"
          /\ returned' = IF run.val.kind = "TypeError" THEN None ELSE run.val
    /\ entry' = [design |-> design, x |-> x, y |-> y, h |-> h]
    /\ phase' = "rendered"
    /\ renders' = renders + 1
    /\ UNCHANGED <<x, y, h, thickness, burn, lid_heigth, lid_radius, lid_sides,
                   margin, mark_length, tab_angle_rad, finger_hole_diameter,
                   argDesign>>

\* the caller assigns new dimensions to the same object between two renders
SetDimensions ==
    /\ phase = "rendered"
    /\ renders < MaxRenders
    /\ \E ny \in Lengths, nh \in Heights :
          /\ <<ny, nh>> # <<y, h>>
          /\ ExactInputs(x, ny, thickness, margin, lid_sides,
                         finger_hole_diameter, tab_angle_rad)
          /\ y' = ny
          /\ h' = nh
    /\ phase' = "configured"
    /\ UNCHANGED <<x, design, thickness, burn, lid_heigth, lid_radius, lid_sides,
                   margin, mark_length, tab_angle_rad, finger_hole_diameter,
                   argDesign, entry, calls, stroked, raised, returned, renders>>

Next == Render \/ SetDimensions

Spec == Init /\ [][Next]_vars

\* =============================================================== claims

Rendered == phase = "rendered"
Ran(fn) == Rendered /\ Len(calls) = 1 /\ calls[1].fn = fn

\* lengths the tab of the invoked tuckbox derives
TuckTabEndWidth ==
    h - (2 * (y - margin - thickness) * tab_angle_rad.B) \div tab_angle_rad.A

\* a valid parameter set: positive dimensions, lid_heigth > lid_radius,
\* finger hole narrower than the side, the lid wider than its two corners,
\* non-negative thickness and burn, positive derived tab width
ValidParameters ==
    /\ x > 0 /\ y > 0 /\ h > 0
    /\ lid_heigth > lid_radius
    /\ finger_hole_diameter < x
    /\ x - 2 * thickness > 2 * lid_radius
    /\ thickness >= 0 /\ burn >= 0
    /\ TuckTabEndWidth > 0

\* the parameter sets C5 lists as violating a geometric precondition
InvalidParameters ==
    \/ x <= 0 \/ y <= 0 \/ h <= 0
    \/ finger_hole_diameter > x
    \/ 2 * lid_radius > x
    \/ TuckTabEndWidth <= 0

\* the turtle is back where it started, heading as it started
Closed(t) ==
    /\ t.ok
    /\ t.px = 0 /\ t.py = 0
    /\ t.hq = 0
    /\ (t.hd = 0 \/ tab_angle_rad.B = 0)

\* C1: for every valid parameter set, interpreting in order every primitive
\* tuckbox(width, length, height) strokes brings the turtle back to its start
\* point with a total turn that is a multiple of 360 degrees.
C1_TuckboxCloses ==
    (Ran("tuckbox") /\ ValidParameters) => Closed(Walk(stroked))

\* C2: for every valid parameter set, widebox(width, length, height)
\* completes and returns one path fragment whose turtle interpretation has
\* zero net translation and a net rotation that is a multiple of 360 degrees.
C2_WideboxReturnsClosedPath ==
    (Ran("widebox") /\ ValidParameters) =>
        /\ raised = "none"
        /\ returned.kind = "list"
        /\ Closed(Walk(polyline(returned.items, "widebox")))

\* C3: a render invokes exactly one assembler, with (width, length, height):
\* under design "automatic" tuckbox exactly when height > length and widebox
\* otherwise (also when height = length); under an explicit design, that one.
C3_DesignSelection ==
    Rendered =>
        /\ Len(calls) = 1
        /\ calls[1].args = <<entry.x, entry.y, entry.h>>
        /\ entry.design = "automatic" /\ entry.h > entry.y
              => calls[1].fn = "tuckbox"
        /\ entry.design = "automatic" /\ entry.h <= entry.y
              => calls[1].fn = "widebox"
        /\ entry.design # "automatic" => calls[1].fn = entry.design

\* C3 witness: an automatic render at the boundary height = length ran widebox
C3_BoundaryRendered ==
    /\ Rendered
    /\ x > 0
    /\ entry.design = "automatic"
    /\ entry.h = entry.y
    /\ calls = <<[fn |-> "widebox", args |-> <<x, y, h>>]>>

LidIndices == {i \in DOMAIN stroked : stroked[i].by = "lid"}
BeforeLid ==
    SubSeq(stroked, 1, (CHOOSE i \in LidIndices : \A j \in LidIndices : i <= j) - 1)
AfterLid ==
    SubSeq(stroked,
           (CHOOSE i \in LidIndices : \A j \in LidIndices : i >= j) + 1,
           Len(stroked))

\* C4: in both assemblers the primitives emitted after the lid profile are the
\* exact primitive-by-primitive reversal of those emitted before it.
C4_MirrorSymmetry ==
    (Rendered /\ ValidParameters) =>
        /\ LidIndices # {}
        /\ AfterLid = Reverse(BeforeLid)

\* C5: a render whose parameters violate a geometric precondition ends in an
\* InvalidParameter error with no primitive stroked.
C5_InvalidRejected ==
    (Rendered /\ InvalidParameters) =>
        /\ raised = "InvalidParameter"
        /\ stroked = <<>>

MarkStrokes == SelectSeq(stroked, LAMBDA p : p.by = "mark")
MarkExpected ==
    polyline(<<Num(0), Num(-90), Num(mark_length), Num(180),
               Num(mark_length), Num(-90)>>, "mark")

\* C6: with mark length 0 a mark emits no primitive; with mark length L > 0
\* it emits exactly [advance 0, turn -90, advance L, turn 180, advance L,
\* turn -90], which leave the turtle where and as it was.  (Stated on the
\* renders of valid parameter sets, where it already fails.)
C6_MarkOutput ==
    (Rendered /\ ValidParameters) =>
        IF mark_length = 0 THEN MarkStrokes = <<>>
        ELSE /\ Len(MarkStrokes) % 6 = 0
             /\ Len(MarkStrokes) > 0
             /\ \A k \in DOMAIN MarkStrokes :
                   MarkStrokes[k] = MarkExpected[((k - 1) % 6) + 1]
             /\ Walk(MarkExpected) = Start

\* C7: in every render of a valid parameter set each crease(length) receives
\* length > 2, so the scored line of length - 2 has positive length.
C7_CreasePrecondition ==
    (Rendered /\ ValidParameters) =>
        \A i \in DOMAIN stroked :
            stroked[i].op = "crease" => stroked[i].arg.v > 0

LidCutLengths == {tuckbox_lid_cut_length(w, l) : w \in Widths, l \in Lengths}

\* C8 as stated: ear_description(length, lid_cut_length, reverse=True) is
\* ear_description(length, lid_cut_length, reverse=False) with its primitives
\* in reverse order.  (Stated for the object of a tuckbox render of a valid
\* parameter set, where it already fails.)
C8_LiteralReversal ==
    (Ran("tuckbox") /\ ValidParameters) =>
        \A l \in Lengths, c \in LidCutLengths :
            ear_description(l, c, TRUE) = Reverse(ear_description(l, c, FALSE))

\* C8 amended: both fragments hold 14 primitives; the first 13 of the reversed
\* fragment are the first 13 of the forward fragment in reverse order, and both
\* end with the same trailing 0, which keeps its last place.
C8_ReversalKeepsTerminator ==
    \A l \in Lengths, c \in LidCutLengths :
        LET f == ear_description(l, c, FALSE)
            r == ear_description(l, c, TRUE)
        IN /\ Len(f) = 14 /\ Len(r) = 14
           /\ SubSeq(r, 1, 13) = Reverse(SubSeq(f, 1, 13))
           /\ r[14] = Num(0) /\ f[14] = Num(0)

\* the arguments of stroked[i .. i + Len(args) - 1] are args
StrokedAt(i, args) ==
    /\ i + Len(args) - 1 <= Len(stroked)
    /\ \A k \in DOMAIN args : stroked[i + k - 1].arg = args[k]

\* C8 witness: a tuckbox render stroked both ears, and they differ
C8_BothEarsStroked ==
    /\ Ran("tuckbox")
    /\ ValidParameters
    /\ LET c == tuckbox_lid_cut_length(x, y)
       IN /\ ear_description(y, c, TRUE) # ear_description(y, c, FALSE)
          /\ \E i \in DOMAIN stroked : StrokedAt(i, ear_description(y, c, FALSE))
          /\ \E i \in DOMAIN stroked : StrokedAt(i, ear_description(y, c, TRUE))

\* C9: on an object configured with design "automatic", every render runs
\* tuckbox exactly when that call's height > length and widebox otherwise.
\* (Stated on the renders of valid parameter sets that ended without an
\* error, where it already fails.)
C9_StatelessDesign ==
    (Rendered /\ ValidParameters /\ raised = "none" /\ argDesign = "automatic") =>
        calls[1].fn = (IF entry.h > entry.y THEN "tuckbox" ELSE "widebox")

EarSegmentsNonNegative(l, c) ==
    \A k \in {1, 3, 5, 7, 9, 11, 13} : ear_path(l, c)[k].v >= 0

\* C10: with non-negative segment lengths, for both values of reverse, the ear
\* fragment leaves the heading unchanged, advances the turtle by length along
\* the entry heading, and has zero net sideways displacement.  (Stated on the
\* ears of tuckbox renders of valid parameter sets, where it already fails.)
C10_EarNetEffect ==
    (Ran("tuckbox") /\ ValidParameters) =>
        LET c == tuckbox_lid_cut_length(x, y)
        IN (EarSegmentsNonNegative(y, c) /\ lid_radius >= 0) =>
              \A rev \in BOOLEAN :
                  LET t == Walk(polyline(ear_description(y, c, rev), "tuckbox"))
                  IN /\ t.ok
                     /\ t.hq = 0 /\ t.hd = 0
                     /\ t.px = y * tab_angle_rad.C
                     /\ t.py = 0

====
